---- MODULE Spec2Model ----
(***************************************************************************)
(* Marker-grid slicing and playback engine of reslice (reslice-gui.cpp).   *)
(*                                                                         *)
(* The repository holds several variants of one GUI program that share the *)
(* same global state: the marker vector, the sample buffer, the tempo and  *)
(* the Playback struct read by the SDL audio callback.  The model is the   *)
(* union of their operations on that state.                                *)
(*                                                                         *)
(* Times are the float seconds of SliceMarker::time, kept in fixed point:  *)
(* one unit is 1/TimeRes second.  Sample indices, rows and MIDI keys are   *)
(* integers as in the code.                                                *)
(***************************************************************************)
EXTENDS Integers, Sequences, FiniteSets, TLC

\* ---------------------------------------------------------------- bounds
\* Largest number of markers the store is allowed to grow to in the model.
MaxMarkers == 3
\* Frames one invocation of the audio callback produces (want.samples, scaled).
FramesPerCallback == 2
\* Play requests the controlling thread issues in one run.
MaxRequests == 2

\* ------------------------------------------------------------- constants
\* Fixed-point resolution of a float time in seconds (units per second).
TimeRes == 2000
\* 0.001f, the de-duplication distance of detect_onsets_aubio, in units.
EpsUnits == TimeRes \div 1000
\* g_wf.samplesPerBlock of the vertical waveform lane.
SamplesPerBlock == 512
\* The ppqn argument every caller passes to detect_onsets_aubio(bpm, ppqn, ..).
DetectPpqn == 24
\* static float detected_bpm = 140.f
InitialBpm == 140
\* static int rows_per_bar = 16
InitialRowsPerBar == 16
\* static int base_note = 36
InitialBaseNote == 36
\* static int samplerate = 44100
InitialSamplerate == 44100
\* The value of a float time that is not a number (0 * inf).
NaN == -1
\* static int ppqn = 480, the resolution of the exported MIDI file.
ExportPpqn == 480

\* ---------------------------------------------------------------- inputs
\* WAV files the program can be started on: sample rate and frame count.
Files == { [sr |-> 10, frames |-> 50], [sr |-> 10, frames |-> 8] }
\* Values of the BPM slider and of the detector's tempo estimate.
BpmInputs == {60}
\* Values of the Rows/bar slider.
RowsPerBarInputs == {32}
\* Raw onset times (units) the detector can report.
OnsetInputs == {202, 396, 802, 1580}
\* Values a DragFloat edit can leave in markers[i].time before the clamp.
DragInputs == {-1000, 2000, 2001, 6000, 12000}
\* Times a click on the horizontal waveform can map to.
ClickTimeInputs == {1000, 3000, 3200, 5000}
\* Grid parameters detect_onsets_aubio(bpm, ppqn, ..) can be called with,
\* the invalid ones (bpm <= 0, ppqn = 0) included.
GridBpmInputs == {-120, 0, 80, 120}
GridPpqnInputs == {0, 16, DetectPpqn}

VARIABLES
    markers,        \* std::vector<SliceMarker> markers: sequence of times
    samplerate,     \* static int samplerate
    total_samples,  \* waveform.size()
    detected_bpm,   \* static float detected_bpm
    rows_per_bar,   \* static int rows_per_bar (main)
    base_note,      \* static int base_note
    main_pc,        \* "start" before main's startup load, "loop" in the event loop
    audio_dev,      \* g_play.dev != 0: the device is open and the callback runs
    markers_mtx,    \* static std::mutex markers_mtx: "free", or "main" while held
    track,          \* export_midi: std::vector<uint8_t> track, the bytes last written
    g_play,         \* Playback g_play: playing, start, end, cursor
    ctl_pending,    \* fields the play request in progress has still to store
    ctl_req,        \* the values the last play request computed
    cb_pc,          \* sdl_audio_cb: "idle", or the step of the current frame
    cb_left,        \* sdl_audio_cb: frames the invocation has still to produce
    cb_c,           \* sdl_audio_cb: the value of p->cursor it holds in a register
    play_reqs,      \* number of play requests issued so far
    stopped,        \* stop_playback returned and no play request was issued since
    cb_fresh,       \* the invocation in progress began after stop_playback returned
    frames_since    \* frames produced since the last play request returned

markerVars == <<markers, samplerate, total_samples, detected_bpm, rows_per_bar,
                base_note, main_pc, audio_dev, markers_mtx, track>>
playVars == <<g_play, ctl_pending, ctl_req, cb_pc, cb_left, cb_c, play_reqs,
              stopped, cb_fresh, frames_since>>
vars == <<markers, samplerate, total_samples, detected_bpm, rows_per_bar,
          base_note, main_pc, audio_dev, markers_mtx, track, g_play, ctl_pending,
          ctl_req, cb_pc, cb_left, cb_c, play_reqs, stopped, cb_fresh, frames_since>>

\* --------------------------------------------------------- float helpers
Abs(x) == IF x < 0 THEN -x ELSE x
Min(a, b) == IF a < b THEN a ELSE b
Max(a, b) == IF a > b THEN a ELSE b

\* floor(n/d + 1/2) for n >= 0, d > 0: int(x + 0.5f) and round(x) of x = n/d.
RoundDiv(n, d) == (2 * n + d) \div (2 * d)
\* ceil(n/d) for n >= 0, d > 0.
CeilDiv(n, d) == (n + d - 1) \div d

\* int(t * samplerate + 0.5f): the sample a marker time maps to.
TimeToSample(t, sr) == RoundDiv(t * sr, TimeRes)
\* waveform.size() / (float)samplerate, in units.
BufferDuration(frames, sr) == RoundDiv(frames * TimeRes, sr)

\* ------------------------------------------------------ vector algorithms
\* std::sort(markers.begin(), markers.end(), a.time < b.time)
RECURSIVE InsertSorted(_, _)
InsertSorted(s, t) ==
    IF s = <<>> THEN <<t>>
    ELSE IF t < Head(s) THEN <<t>> \o s
    ELSE <<Head(s)>> \o InsertSorted(Tail(s), t)

RECURSIVE SortByTime(_)
SortByTime(s) ==
    IF s = <<>> THEN <<>> ELSE InsertSorted(SortByTime(Tail(s)), Head(s))

\* Variant: among equally close elements the last one is taken.
MinElementIndex_last(s, t) ==
    CHOOSE i \in 1..Len(s) :
        /\ \A j \in 1..Len(s) : Abs(s[i] - t) <= Abs(s[j] - t)
        /\ \A j \in (i + 1)..Len(s) : Abs(s[j] - t) > Abs(s[i] - t)

\* Index of std::min_element(.., fabs(a.time - t) < fabs(b.time - t)):
\* the first element no later element is strictly closer than.
MinElementIndex(s, t) ==
    CHOOSE i \in 1..Len(s) :
        /\ \A j \in 1..Len(s) : Abs(s[i] - t) <= Abs(s[j] - t)
        /\ \A j \in 1..(i - 1) : Abs(s[j] - t) > Abs(s[i] - t)

\* markers.erase(it)
EraseAt(s, i) == SubSeq(s, 1, i - 1) \o SubSeq(s, i + 1, Len(s))

\* std::unique(out.begin(), out.end(), fabs(a.time - b.time) < 0.001f):
\* drops an element when it is within epsilon of the last element kept.
RECURSIVE UniqueFrom(_, _)
UniqueFrom(kept, rest) ==
    IF rest = <<>> THEN kept
    ELSE IF Abs(kept[Len(kept)] - Head(rest)) < EpsUnits
         THEN UniqueFrom(kept, Tail(rest))
         ELSE UniqueFrom(Append(kept, Head(rest)), Tail(rest))

UniqueEps(s) == IF s = <<>> THEN <<>> ELSE UniqueFrom(<<Head(s)>>, Tail(s))

\* -------------------------------------------------------- RowCalculator
\* seconds_per_row = ((60.f / bpm) * 4.0f) / rows_per_bar = 240 / (bpm * rpb) s.
\* samples_per_row = int(seconds_per_row * samplerate + 0.5f)
samples_per_row(bpm, rpb, sr) == RoundDiv(240 * sr, bpm * rpb)
\* total_rows = int((total_samples + samples_per_row - 1) / samples_per_row)
total_rows(bpm, rpb, sr, frames) ==
    (frames + samples_per_row(bpm, rpb, sr) - 1) \div samples_per_row(bpm, rpb, sr)
\* sample_to_row(sample) = sample / samples_per_row
sample_to_row(sample, bpm, rpb, sr) == sample \div samples_per_row(bpm, rpb, sr)
\* row_to_seconds(row) = row * seconds_per_row, stored as a float time.
row_to_seconds(row, bpm, rpb) == RoundDiv(row * 240 * TimeRes, bpm * rpb)

\* ------------------------------------------------- compute_sample_regions
\* Variant: the end of a region truncates the next marker's sample, as
\* export_sfz does, while the start rounds it.
compute_sample_regions_trunc_end(ms, sr, frames, base) ==
    IF ms = <<>>
    THEN << [start_sample |-> 0, end_sample |-> frames, midi_key |-> base] >>
    ELSE [ i \in 1..Len(ms) |->
             [ start_sample |-> TimeToSample(ms[i], sr),
               end_sample   |-> IF i < Len(ms) THEN (ms[i + 1] * sr) \div TimeRes
                                ELSE frames,
               midi_key     |-> base + (i - 1) ] ]

\* Variant: the pitch counts the regions from one.
compute_sample_regions_pitch_from_one(ms, sr, frames, base) ==
    IF ms = <<>>
    THEN << [start_sample |-> 0, end_sample |-> frames, midi_key |-> base] >>
    ELSE [ i \in 1..Len(ms) |->
             [ start_sample |-> TimeToSample(ms[i], sr),
               end_sample   |-> IF i < Len(ms) THEN TimeToSample(ms[i + 1], sr)
                                ELSE frames,
               midi_key     |-> base + i ] ]

\* Variant: a leading region from sample 0 to the first marker is emitted too.
compute_sample_regions_leading(ms, sr, frames, base) ==
    IF ms = <<>>
    THEN << [start_sample |-> 0, end_sample |-> frames, midi_key |-> base] >>
    ELSE [ i \in 1..(Len(ms) + 1) |->
             [ start_sample |-> IF i = 1 THEN 0 ELSE TimeToSample(ms[i - 1], sr),
               end_sample   |-> IF i <= Len(ms) THEN TimeToSample(ms[i], sr)
                                ELSE frames,
               midi_key     |-> base + (i - 1) ] ]

compute_sample_regions(ms, sr, frames, base) ==
    IF ms = <<>>
    THEN << [start_sample |-> 0, end_sample |-> frames, midi_key |-> base] >>
    ELSE [ i \in 1..Len(ms) |->
             [ start_sample |-> TimeToSample(ms[i], sr),
               end_sample   |-> IF i < Len(ms) THEN TimeToSample(ms[i + 1], sr)
                                ELSE frames,
               midi_key     |-> base + (i - 1) ] ]

\* The regions draw_tracker_and_wave derives from the current store.
Regions == compute_sample_regions(markers, samplerate, total_samples, base_note)

\* ------------------------------------------------------------ quantizing
\* quantize_unit = ((60.0f / bpm) * 4.0f) / ppqn and
\* marker.time = round(marker.time / quantize_unit) * quantize_unit
\* The code has no guard on the grid parameters.  With bpm = 0 or ppqn = 0 the
\* float unit is +inf, marker.time / unit is 0 and round(0) * inf is NaN; with
\* bpm < 0 the unit is negative and round(t / unit) * unit is the point of the
\* grid of -bpm.
\* Variant: the grid position is truncated instead of rounded.
QuantizeTime_truncate(t, bpm, ppqn) ==
    IF bpm = 0 \/ ppqn = 0 THEN NaN
    ELSE RoundDiv(((t * Abs(bpm) * ppqn) \div (240 * TimeRes)) * 240 * TimeRes,
                  Abs(bpm) * ppqn)

\* Variant: the time is moved to the grid point after the nearest one.
QuantizeTime_next_point(t, bpm, ppqn) ==
    IF bpm = 0 \/ ppqn = 0 THEN NaN
    ELSE RoundDiv((RoundDiv(t * Abs(bpm) * ppqn, 240 * TimeRes) + 1) * 240 * TimeRes,
                  Abs(bpm) * ppqn)

QuantizeTime(t, bpm, ppqn) ==
    IF bpm = 0 \/ ppqn = 0 THEN NaN
    ELSE RoundDiv(RoundDiv(t * Abs(bpm) * ppqn, 240 * TimeRes) * 240 * TimeRes,
                  Abs(bpm) * ppqn)

\* The tail of detect_onsets_aubio(bpm, ppqn, ..): sort, quantize, unique.
\* Variant: the onsets are sorted and quantized, and collisions are kept.
QuantizeOnsets_keep_collisions(raw, bpm, ppqn) ==
    LET sorted == SortByTime(raw)
    IN  [ i \in 1..Len(sorted) |-> QuantizeTime(sorted[i], bpm, ppqn) ]

\* fabs(a.time - b.time) < 0.001f is false when the times are NaN, so
\* std::unique removes nothing from a list of NaN times.
QuantizeOnsets(raw, bpm, ppqn) ==
    LET sorted == SortByTime(raw)
        quant  == [ i \in 1..Len(sorted) |-> QuantizeTime(sorted[i], bpm, ppqn) ]
    IN  IF bpm = 0 \/ ppqn = 0 THEN quant ELSE UniqueEps(quant)

\* Ascending sequences of at most MaxMarkers raw onsets inside the buffer.
RECURSIVE SetToSeq(_)
SetToSeq(S) ==
    IF S = {} THEN <<>>
    ELSE LET m == CHOOSE x \in S : \A y \in S : x <= y
         IN  <<m>> \o SetToSeq(S \ {m})

RawOnsetLists(frames, sr) ==
    { SetToSeq(S) : S \in { T \in SUBSET { t \in OnsetInputs : t < BufferDuration(frames, sr) } :
                            Cardinality(T) <= MaxMarkers } }

\* ------------------------------------------------------------------ Init
\* struct Playback { bool playing = false; size_t start = 0, end = 0, cursor = 0; .. }
NoRequest == [kind |-> "none", start |-> 0, raw_end |-> 0, want_end |-> 0, end |-> 0]

PlaybackInit ==
    /\ g_play = [playing |-> FALSE, start |-> 0, end |-> 0, cursor |-> 0]
    /\ ctl_pending = {}
    /\ ctl_req = NoRequest
    /\ cb_pc = "idle"
    /\ cb_left = 0
    /\ cb_c = 0
    /\ play_reqs = 0
    /\ stopped = FALSE
    /\ cb_fresh = FALSE
    /\ frames_since = 0

\* Variant: the audio device is already open when the program starts to load.
Init_device_open ==
    /\ markers = <<>>
    /\ samplerate = InitialSamplerate
    /\ total_samples = 0
    /\ detected_bpm = InitialBpm
    /\ rows_per_bar = InitialRowsPerBar
    /\ base_note = InitialBaseNote
    /\ main_pc = "start"
    /\ audio_dev = TRUE
    /\ markers_mtx = "free"
    /\ track = <<>>
    /\ PlaybackInit

\* Variant: a marker exists before the buffer is loaded.
Init_with_marker ==
    /\ markers = <<1000>>
    /\ samplerate = InitialSamplerate
    /\ total_samples = 0
    /\ detected_bpm = InitialBpm
    /\ rows_per_bar = InitialRowsPerBar
    /\ base_note = InitialBaseNote
    /\ main_pc = "start"
    /\ audio_dev = FALSE
    /\ markers_mtx = "free"
    /\ track = <<>>
    /\ PlaybackInit

Init ==
    /\ markers = <<>>
    /\ samplerate = InitialSamplerate
    /\ total_samples = 0
    /\ detected_bpm = InitialBpm
    /\ rows_per_bar = InitialRowsPerBar
    /\ base_note = InitialBaseNote
    /\ main_pc = "start"
    /\ audio_dev = FALSE
    /\ markers_mtx = "free"
    /\ track = <<>>
    /\ PlaybackInit

\* --------------------------------------------------------------- actions
\* main: if (argc > 1 && load_wav_mono(argv[1])) { audio_reopen_for_current();
\*           detect_onsets_aubio(detected_bpm, 24, true); }
\* load_wav_mono returning true: samplerate = spec.freq; waveform.resize(frames).
\* It writes neither markers nor g_play.
StartupLoad ==
    /\ main_pc = "start"
    /\ \E f \in Files :
          /\ samplerate' = f.sr
          /\ total_samples' = f.frames
    /\ main_pc' = "loaded"
    /\ UNCHANGED <<markers, detected_bpm, rows_per_bar, base_note, audio_dev>>
    /\ UNCHANGED <<markers_mtx, track, playVars>>

\* audio_reopen_for_current(): the device is closed if it was open, then opened
\* on the current samplerate and unpaused, so that the callback starts to run.
AudioReopen ==
    /\ main_pc = "loaded"
    /\ audio_dev' = TRUE
    /\ main_pc' = "opened"
    /\ UNCHANGED <<markers, samplerate, total_samples, detected_bpm, rows_per_bar, base_note>>
    /\ UNCHANGED <<markers_mtx, track, playVars>>

\* detect_onsets_aubio(detected_bpm, 24, true) at startup: bpm is received by
\* value before the tempo loop may store a new detected_bpm.
\* Variant: the detector's tempo estimate is stored without the _bpm > 0 test.
StartupDetectWith_any_estimate(raw, est) ==
    /\ main_pc = "opened"
    /\ detected_bpm' = est
    /\ markers' = QuantizeOnsets(raw, detected_bpm, DetectPpqn)
    /\ main_pc' = "loop"
    /\ UNCHANGED <<samplerate, total_samples, rows_per_bar, base_note, audio_dev>>
    /\ UNCHANGED <<markers_mtx, track, playVars>>

StartupDetectWith(raw, est) ==
    /\ main_pc = "opened"
    /\ detected_bpm' = IF est > 0 THEN est ELSE detected_bpm
    /\ markers' = QuantizeOnsets(raw, detected_bpm, DetectPpqn)
    /\ main_pc' = "loop"
    /\ UNCHANGED <<samplerate, total_samples, rows_per_bar, base_note, audio_dev>>
    /\ UNCHANGED <<markers_mtx, track, playVars>>

StartupDetect ==
    \E raw \in RawOnsetLists(total_samples, samplerate) :
    \E est \in BpmInputs \cup {0} :
        StartupDetectWith(raw, est)

\* main without a file argument, or load_wav_mono returning false.
StartupNoFile ==
    /\ main_pc = "start"
    /\ main_pc' = "loop"
    /\ UNCHANGED <<markers, samplerate, total_samples, detected_bpm, rows_per_bar, base_note,
                   audio_dev>>
    /\ UNCHANGED <<markers_mtx, track, playVars>>

\* Rows of the tracker a click is tried on: the first and the last ones.
ClickRows(n) == { r \in 0..(n - 1) : r < 2 \/ r = n - 3 \/ r = n - 1 }

\* draw_tracker_and_wave returns early without a buffer or a tempo.
TrackerDrawn == total_samples > 0 /\ samplerate > 0 /\ detected_bpm > 0

\* marker_drawn: some region starts on this row.
marker_drawn(row) ==
    \E m \in 1..Len(Regions) :
        sample_to_row(Regions[m].start_sample, detected_bpm, rows_per_bar, samplerate) = row

\* draw_tracker_and_wave, left click on a grid row:
\* markers.push_back({rowCalc.row_to_seconds(row)}); std::sort(..).
ClickInsertRowAt(row) ==
    /\ main_pc = "loop" /\ TrackerDrawn
    /\ Len(markers) < MaxMarkers
    /\ row \in ClickRows(total_rows(detected_bpm, rows_per_bar, samplerate, total_samples))
    /\ ~marker_drawn(row)
    /\ markers' = SortByTime(Append(markers, row_to_seconds(row, detected_bpm, rows_per_bar)))
    /\ UNCHANGED <<samplerate, total_samples, detected_bpm, rows_per_bar, base_note, main_pc,
                   audio_dev>>
    /\ UNCHANGED <<markers_mtx, track, playVars>>

ClickInsertRow == \E row \in 0..(total_samples - 1) : ClickInsertRowAt(row)

\* The markers remove_if keeps: those whose sample is not on the row.
KeepOffRow(ms, row, bpm, rpb, sr) ==
    SelectSeq(ms, LAMBDA t : sample_to_row(TimeToSample(t, sr), bpm, rpb, sr) # row)

\* draw_tracker_and_wave, right click on a grid row.
RemoveOnRowAt(row) ==
    /\ main_pc = "loop" /\ TrackerDrawn
    /\ row \in ClickRows(total_rows(detected_bpm, rows_per_bar, samplerate, total_samples))
    /\ marker_drawn(row)
    /\ markers' = KeepOffRow(markers, row, detected_bpm, rows_per_bar, samplerate)
    /\ UNCHANGED <<samplerate, total_samples, detected_bpm, rows_per_bar, base_note, main_pc,
                   audio_dev>>
    /\ UNCHANGED <<markers_mtx, track, playVars>>

RemoveOnRow == \E row \in 0..(total_samples - 1) : RemoveOnRowAt(row)

\* draw_waveform_vertical, left click on block bi of the lane:
\* t = (bi * samplesPerBlock) / samplerate; push_back; sort.
BlockTime(bi, sr) == RoundDiv(bi * SamplesPerBlock * TimeRes, sr)

ClickInsertVerticalAt(bi) ==
    /\ main_pc = "loop" /\ total_samples > 0
    /\ Len(markers) < MaxMarkers
    /\ bi \in 0..(CeilDiv(total_samples, SamplesPerBlock) - 1)
    /\ markers' = SortByTime(Append(markers, BlockTime(bi, samplerate)))
    /\ UNCHANGED <<samplerate, total_samples, detected_bpm, rows_per_bar, base_note, main_pc,
                   audio_dev>>
    /\ UNCHANGED <<markers_mtx, track, playVars>>

ClickInsertVertical ==
    \E bi \in 0..(CeilDiv(total_samples, SamplesPerBlock) - 1) : ClickInsertVerticalAt(bi)

\* draw_waveform, left click at time t of the horizontal waveform.
ClickInsertWaveAt(t) ==
    /\ main_pc = "loop" /\ total_samples > 0
    /\ Len(markers) < MaxMarkers
    /\ t \in ClickTimeInputs
    /\ t <= BufferDuration(total_samples, samplerate)
    /\ markers' = SortByTime(Append(markers, t))
    /\ UNCHANGED <<samplerate, total_samples, detected_bpm, rows_per_bar, base_note, main_pc,
                   audio_dev>>
    /\ UNCHANGED <<markers_mtx, track, playVars>>

ClickInsertWave == \E t \in ClickTimeInputs : ClickInsertWaveAt(t)

\* Variant: the first marker is erased, whatever the time clicked.
remove_closest_first(ms, t) == IF ms = <<>> THEN ms ELSE EraseAt(ms, 1)

\* draw_waveform / draw_waveform_vertical, right click at time t:
\* erase(min_element(.., fabs(a.time - t) < fabs(b.time - t))).
remove_closest(ms, t) == IF ms = <<>> THEN ms ELSE EraseAt(ms, MinElementIndex(ms, t))

RemoveClosestAt(t) ==
    /\ main_pc = "loop" /\ total_samples > 0
    /\ t \in ClickTimeInputs \cup {0}
    /\ t <= BufferDuration(total_samples, samplerate)
    /\ markers' = remove_closest(markers, t)
    /\ UNCHANGED <<samplerate, total_samples, detected_bpm, rows_per_bar, base_note, main_pc,
                   audio_dev>>
    /\ UNCHANGED <<markers_mtx, track, playVars>>

RemoveClosest == \E t \in ClickTimeInputs \cup {0} : RemoveClosestAt(t)

\* Variant: the edited time is clamped but the store is not sorted afterwards.
drag_marker_unsorted(ms, i, v, maxT) == [ms EXCEPT ![i] = Max(0, Min(v, maxT))]

\* main, DragFloat("time", &markers[i].time, .., 0.f, maxT) returning true:
\* markers[i].time = max(0.f, min(markers[i].time, maxT)); std::sort(..).
drag_marker(ms, i, v, maxT) == SortByTime([ms EXCEPT ![i] = Max(0, Min(v, maxT))])

DragMarkerTime ==
    /\ main_pc = "loop"
    /\ \E i \in 1..Len(markers) : \E v \in DragInputs :
          markers' = drag_marker(markers, i, v, BufferDuration(total_samples, samplerate))
    /\ UNCHANGED <<samplerate, total_samples, detected_bpm, rows_per_bar, base_note, main_pc,
                   audio_dev>>
    /\ UNCHANGED <<markers_mtx, track, playVars>>

\* "Auto Detect" button: detect_onsets_aubio(detected_bpm, 24, false).
AutoDetectWith(raw) ==
    /\ main_pc = "loop"
    /\ markers' = QuantizeOnsets(raw, detected_bpm, DetectPpqn)
    /\ UNCHANGED <<samplerate, total_samples, detected_bpm, rows_per_bar, base_note, main_pc,
                   audio_dev>>
    /\ UNCHANGED <<markers_mtx, track, playVars>>

AutoDetect == \E raw \in RawOnsetLists(total_samples, samplerate) : AutoDetectWith(raw)

\* "Clear" button: markers.clear().
Clear ==
    /\ main_pc = "loop"
    /\ markers' = <<>>
    /\ UNCHANGED <<samplerate, total_samples, detected_bpm, rows_per_bar, base_note, main_pc,
                   audio_dev>>
    /\ UNCHANGED <<markers_mtx, track, playVars>>

\* SliderFloat("BPM", &detected_bpm, 40.f, 240.f)
SetBpm ==
    /\ main_pc = "loop"
    /\ \E b \in BpmInputs \cup {InitialBpm} : detected_bpm' = b
    /\ UNCHANGED <<markers, samplerate, total_samples, rows_per_bar, base_note, main_pc,
                   audio_dev>>
    /\ UNCHANGED <<markers_mtx, track, playVars>>

\* SliderInt("Rows/bar", &rows_per_bar, 1, 32)
SetRowsPerBar ==
    /\ main_pc = "loop"
    /\ \E r \in RowsPerBarInputs \cup {InitialRowsPerBar} : rows_per_bar' = r
    /\ UNCHANGED <<markers, samplerate, total_samples, detected_bpm, base_note, main_pc,
                   audio_dev>>
    /\ UNCHANGED <<markers_mtx, track, playVars>>

\* ---------------------------------------------------------------- playback
\* (size_t)(seconds * samplerate): truncation of a non-negative product.
SecondsToSample(t, sr) == (t * sr) \div TimeRes
\* (size_t)(0.5f * samplerate)
HalfSecond(sr) == sr \div 2

\* Variant: a degenerate range is kept as it is, no default window replaces it.
play_segment_seconds_no_default(start_s, end_s, sr, frames) ==
    LET start == SecondsToSample(start_s, sr)
        raw   == SecondsToSample(end_s, sr)
    IN  [kind |-> "segment", start |-> start, raw_end |-> raw, want_end |-> raw,
         end |-> Min(raw, frames)]

\* play_segment_seconds(start_s, end_s): the values it stores into g_play.
play_segment_seconds(start_s, end_s, sr, frames) ==
    LET start == SecondsToSample(start_s, sr)
        raw   == SecondsToSample(end_s, sr)
        end   == IF raw <= start THEN Min(frames, start + HalfSecond(sr)) ELSE raw
    IN  [kind |-> "segment", start |-> start, raw_end |-> raw, want_end |-> end,
         end |-> Min(end, frames)]

\* play_region(reg): g_play.start = reg.start_sample; g_play.end = reg.end_sample.
play_region(reg) ==
    [kind |-> "region", start |-> reg.start_sample, raw_end |-> reg.end_sample,
     want_end |-> reg.end_sample, end |-> reg.end_sample]

\* main, "Play All" of the tracker: g_play.start = 0; g_play.end = waveform.size().
play_all_direct(frames) ==
    [kind |-> "all", start |-> 0, raw_end |-> frames, want_end |-> frames, end |-> frames]

\* A play request starts: the handler has computed its values and has the four
\* plain stores to g_play still to make.  The stores are not ordered against the
\* audio thread, so they become visible one at a time, in any order.
IssueRequest(req) ==
    /\ main_pc = "loop"
    /\ ctl_pending = {}
    /\ play_reqs < MaxRequests
    /\ ctl_req' = req
    /\ ctl_pending' = {"start", "cursor", "end", "playing"}
    /\ play_reqs' = play_reqs + 1
    /\ stopped' = FALSE
    /\ cb_fresh' = FALSE
    /\ frames_since' = 0
    /\ UNCHANGED <<g_play, cb_pc, cb_left, cb_c>>
    /\ UNCHANGED markerVars

\* main, per-marker "Play" button and the tracker's PLAY of a marker row:
\* play_segment_seconds(markers[i].time, next marker's time or the buffer duration).
PlaySegment ==
    \E i \in 1..Len(markers) :
        IssueRequest(play_segment_seconds(
            markers[i],
            IF i < Len(markers) THEN markers[i + 1]
            ELSE BufferDuration(total_samples, samplerate),
            samplerate, total_samples))

\* "Play All": play_segment_seconds(0.f, waveform.size() / (float)samplerate).
PlayAllSeconds ==
    IssueRequest(play_segment_seconds(0, BufferDuration(total_samples, samplerate),
                                      samplerate, total_samples))

\* draw_region_marker, "PLAY" of a region drawn on its start row: play_region(r).
PlayRegion ==
    /\ TrackerDrawn
    /\ \E m \in 1..Len(Regions) :
          /\ sample_to_row(Regions[m].start_sample, detected_bpm, rows_per_bar, samplerate)
                < total_rows(detected_bpm, rows_per_bar, samplerate, total_samples)
          /\ IssueRequest(play_region(Regions[m]))

\* "Play All" of the tracker, written inline in main.
PlayAllDirect == IssueRequest(play_all_direct(total_samples))

\* One of the request's stores reaches g_play; the request returns with the last.
StoreField(f) ==
    CASE f = "start"   -> [g_play EXCEPT !.start = ctl_req.start]
      [] f = "cursor"  -> [g_play EXCEPT !.cursor = ctl_req.start]
      [] f = "end"     -> [g_play EXCEPT !.end = ctl_req.end]
      [] f = "playing" -> [g_play EXCEPT !.playing = TRUE]

CtlStore ==
    /\ ctl_pending # {}
    /\ \E f \in ctl_pending :
          /\ g_play' = StoreField(f)
          /\ ctl_pending' = ctl_pending \ {f}
    /\ UNCHANGED <<ctl_req, cb_pc, cb_left, cb_c, play_reqs, stopped, cb_fresh, frames_since>>
    /\ UNCHANGED markerVars

\* Variant: stopping also rewinds the cursor to the start of the range.
stop_playback_rewind(p) == [p EXCEPT !.playing = FALSE, !.cursor = p.start]

\* stop_playback(): g_play.playing = false.
stop_playback(p) == [p EXCEPT !.playing = FALSE]

StopPlayback ==
    /\ main_pc = "loop"
    /\ ctl_pending = {}
    /\ g_play' = stop_playback(g_play)
    /\ stopped' = TRUE
    /\ UNCHANGED <<ctl_pending, ctl_req, cb_pc, cb_left, cb_c, play_reqs, cb_fresh, frames_since>>
    /\ UNCHANGED markerVars

\* ---------------------------------------------------------- sdl_audio_cb
\* The audio thread enters sdl_audio_cb for one buffer of frames.
CbBegin ==
    /\ audio_dev
    /\ cb_pc = "idle"
    /\ cb_pc' = "guard"
    /\ cb_left' = FramesPerCallback
    /\ cb_fresh' = stopped
    /\ UNCHANGED <<g_play, ctl_pending, ctl_req, cb_c, play_reqs, stopped, frames_since>>
    /\ UNCHANGED markerVars

\* p->playing && p->cursor < p->end && p->cursor < waveform.size()
cb_guard(p, frames) == p.playing /\ p.cursor < p.end /\ p.cursor < frames

\* out[i] = sample: the frame is produced and the loop goes on or returns.
FrameDone ==
    /\ cb_left' = cb_left - 1
    /\ cb_pc' = IF cb_left = 1 THEN "idle" ELSE "guard"
    /\ cb_c' = 0
    /\ frames_since' = IF ctl_pending = {} /\ play_reqs > 0 /\ frames_since <= total_samples
                       THEN frames_since + 1 ELSE frames_since

\* Variant: the callback waits for the controlling thread to finish its request
\* before it evaluates the guard, as it would behind a lock.
CbGuard_waits ==
    /\ cb_pc = "guard"
    /\ ctl_pending = {}
    /\ IF cb_guard(g_play, total_samples)
       THEN /\ cb_pc' = "inc"
            /\ cb_c' = g_play.cursor
            /\ UNCHANGED <<cb_left, frames_since>>
       ELSE FrameDone
    /\ UNCHANGED <<g_play, ctl_pending, ctl_req, play_reqs, stopped, cb_fresh>>
    /\ UNCHANGED markerVars

\* The frame's guard: false leaves sample = 0.f (silence).
CbGuard ==
    /\ cb_pc = "guard"
    /\ IF cb_guard(g_play, total_samples)
       THEN /\ cb_pc' = "inc"
            /\ cb_c' = g_play.cursor
            /\ UNCHANGED <<cb_left, frames_since>>
       ELSE FrameDone
    /\ UNCHANGED <<g_play, ctl_pending, ctl_req, play_reqs, stopped, cb_fresh>>
    /\ UNCHANGED markerVars

\* sample = waveform[p->cursor++] * p->volume: the cursor loaded for the guard
\* may be reused or p->cursor may be loaded again; the incremented value is stored.
CbInc ==
    /\ cb_pc = "inc"
    /\ \E c \in {cb_c, g_play.cursor} :
          /\ g_play' = [g_play EXCEPT !.cursor = c + 1]
          /\ cb_c' = c + 1
    /\ cb_pc' = "check"
    /\ UNCHANGED <<ctl_pending, ctl_req, cb_left, play_reqs, stopped, cb_fresh, frames_since>>
    /\ UNCHANGED markerVars

\* if (p->cursor >= p->end): p->end is loaded again, p->cursor is the value just
\* stored or loaded again.
CbCheck ==
    /\ cb_pc = "check"
    /\ \E c \in {cb_c, g_play.cursor} :
          IF c >= g_play.end
          THEN /\ cb_pc' = "clear"
               /\ UNCHANGED <<cb_left, cb_c, frames_since>>
          ELSE FrameDone
    /\ UNCHANGED <<g_play, ctl_pending, ctl_req, play_reqs, stopped, cb_fresh>>
    /\ UNCHANGED markerVars

\* Variant: at the end of the range the callback also rewinds the cursor.
CbClear_rewind ==
    /\ cb_pc = "clear"
    /\ g_play' = [g_play EXCEPT !.playing = FALSE, !.cursor = g_play.start]
    /\ FrameDone
    /\ UNCHANGED <<ctl_pending, ctl_req, play_reqs, stopped, cb_fresh>>
    /\ UNCHANGED markerVars

\* p->playing = false, then out[i] = sample.
CbClear ==
    /\ cb_pc = "clear"
    /\ g_play' = [g_play EXCEPT !.playing = FALSE]
    /\ FrameDone
    /\ UNCHANGED <<ctl_pending, ctl_req, play_reqs, stopped, cb_fresh>>
    /\ UNCHANGED markerVars

\* States of the event loop the playback specification starts from.  Each is a
\* state Spec reaches (the marker operations that lead to it are named).
PlayConfigs ==
    { \* started on a file, the detector found no onset
      [frames |-> 8, sr |-> 10, bpm |-> InitialBpm, rpb |-> InitialRowsPerBar,
       dev |-> TRUE, ms |-> <<>>],
      \* left click on row 1 (bpm 60, 32 rows/bar), then a click at 0.5 s of the waveform
      [frames |-> 8, sr |-> 10, bpm |-> 60, rpb |-> 32, dev |-> TRUE, ms |-> <<250, 1000>>],
      \* left clicks on rows 5 and 7 (bpm 60, 32 rows/bar)
      [frames |-> 8, sr |-> 10, bpm |-> 60, rpb |-> 32, dev |-> TRUE, ms |-> <<1250, 1750>>],
      \* two left clicks on block 0 of the vertical lane
      [frames |-> 8, sr |-> 10, bpm |-> InitialBpm, rpb |-> InitialRowsPerBar,
       dev |-> TRUE, ms |-> <<0, 0>>],
      \* a click and a drag of the marker to the maximum
      [frames |-> 8, sr |-> 10, bpm |-> InitialBpm, rpb |-> InitialRowsPerBar,
       dev |-> TRUE, ms |-> <<1600>>],
      \* started without a file
      [frames |-> 0, sr |-> InitialSamplerate, bpm |-> InitialBpm, rpb |-> InitialRowsPerBar,
       dev |-> FALSE, ms |-> <<>>] }

InPlayConfig ==
    \E c \in PlayConfigs :
        /\ markers = c.ms /\ samplerate = c.sr /\ total_samples = c.frames
        /\ detected_bpm = c.bpm /\ rows_per_bar = c.rpb /\ audio_dev = c.dev

InitPlay ==
    /\ InPlayConfig
    /\ base_note = InitialBaseNote
    /\ main_pc = "loop"
    /\ markers_mtx = "free"
    /\ track = <<>>
    /\ PlaybackInit

NextPlay ==
    \/ PlaySegment
    \/ PlayAllSeconds
    \/ PlayRegion
    \/ PlayAllDirect
    \/ CtlStore
    \/ StopPlayback
    \/ CbBegin
    \/ CbGuard
    \/ CbInc
    \/ CbCheck
    \/ CbClear

SpecPlay == InitPlay /\ [][NextPlay]_vars

\* The steps of sdl_audio_cb once it was entered.
CallbackBody == CbGuard \/ CbInc \/ CbCheck \/ CbClear

\* The audio thread is scheduled by SDL independently of the event loop: a
\* callback that was entered keeps running.  Nothing is assumed of the
\* controlling thread.
SpecPlayFair == SpecPlay /\ WF_vars(CallbackBody)

Next ==
    \/ StartupLoad
    \/ AudioReopen
    \/ StartupDetect
    \/ StartupNoFile
    \/ ClickInsertRow
    \/ RemoveOnRow
    \/ ClickInsertVertical
    \/ ClickInsertWave
    \/ RemoveClosest
    \/ DragMarkerTime
    \/ AutoDetect
    \/ Clear
    \/ SetBpm
    \/ SetRowsPerBar

Spec == Init /\ [][Next]_vars

\* The marker store driven from the waveform view and the detector only: the
\* behaviours of Spec in which the tracker grid and the drag fields are not used.
NextStore ==
    \/ StartupLoad
    \/ AudioReopen
    \/ StartupDetect
    \/ StartupNoFile
    \/ ClickInsertWave
    \/ RemoveClosest
    \/ AutoDetect
    \/ Clear
    \/ SetBpm

SpecStore == Init /\ [][NextStore]_vars
\* ================================================================ properties
\* Samples a region holds: the half-open range [start_sample, end_sample).
RegionSamples(r) == { x \in r.start_sample..(r.end_sample - 1) : TRUE }

\* Each region's end is the next region's start.
Contiguous(rs) ==
    \A i \in 1..(Len(rs) - 1) : rs[i].end_sample = rs[i + 1].start_sample

\* No sample lies in two regions.
NonOverlapping(rs) ==
    \A i, j \in 1..Len(rs) : i # j => RegionSamples(rs[i]) \cap RegionSamples(rs[j]) = {}

\* The samples of the buffer the regions cover.
Covered(rs, frames) ==
    { x \in 0..(frames - 1) : \E i \in 1..Len(rs) : x \in RegionSamples(rs[i]) }

\* C1: after every marker-store operation the marker list is strictly
\* ascending by time and no two markers lie within 1 ms of each other.
C1_SortedAndDuplicateFree ==
    \A i \in 1..(Len(markers) - 1) : markers[i + 1] - markers[i] >= EpsUnits

C3_RegionCountEndAndPitch ==
    main_pc = "loop" =>
        IF markers = <<>>
        THEN Regions = << [start_sample |-> 0, end_sample |-> total_samples,
                           midi_key |-> base_note] >>
        ELSE /\ Len(Regions) = Len(markers)
             /\ Regions[Len(Regions)].end_sample = total_samples
             /\ \A i \in 1..Len(Regions) : Regions[i].midi_key = base_note + (i - 1)

\* C3 witness: a store of three markers on a loaded buffer.
C3_Witness == main_pc = "loop" /\ Len(markers) = 3 /\ total_samples > 0

\* The state of the region-export scenario: 5 s at sample rate 10, markers at
\* 1.0 s and 3.0 s, base pitch 36.
ExportScenario ==
    /\ samplerate = 10 /\ total_samples = 50
    /\ markers = <<1 * TimeRes, 3 * TimeRes>>
    /\ base_note = 36

Region(s, e, k) == [start_sample |-> s, end_sample |-> e, midi_key |-> k]

\* C4 as stated: the scenario yields the regions (0,10,36), (10,30,37), (30,50,38).
C4_ScenarioThreeRegions ==
    ExportScenario => Regions = << Region(0, 10, 36), Region(10, 30, 37), Region(30, 50, 38) >>

\* C4 amended: the scenario yields exactly the two regions (10,30,36), (30,50,37),
\* one per marker, none for the samples before the first marker.
C4_ScenarioTwoRegions ==
    ExportScenario => Regions = << Region(10, 30, 36), Region(30, 50, 37) >>

\* C4 witness: the scenario's state, reached by marker edits.
C4_Witness == ExportScenario /\ main_pc = "loop"

\* C5: every region of a reachable marker list satisfies
\* 0 <= start_sample < end_sample <= total_samples.
C5_RegionsWellFormed ==
    (main_pc = "loop" /\ total_samples > 0) =>
        \A i \in 1..Len(Regions) :
            /\ 0 <= Regions[i].start_sample
            /\ Regions[i].start_sample < Regions[i].end_sample
            /\ Regions[i].end_sample <= total_samples

\* ------------------------------------------------------- playback claims
\* The range [s, e) of the last play request, as the caller asked for it.
RequestedStart == ctl_req.start
RequestedEnd == ctl_req.want_end

\* The last play request has returned and nothing was called since.
RequestReturned == play_reqs > 0 /\ ctl_pending = {} /\ ~stopped

\* The audio thread is between two frames.
AtFrameBoundary == cb_pc \in {"idle", "guard"}

\* C6: after a play request for [s, e) with 0 <= s < e <= bufferLength and no
\* further call of the controlling thread, playing is true while fewer than
\* e - s frames have been produced and false once e - s frames have been
\* produced (so that every later frame is silence).
C6_PlayingUntilRangeConsumed ==
    (RequestReturned /\ AtFrameBoundary
        /\ 0 <= RequestedStart /\ RequestedStart < RequestedEnd
        /\ RequestedEnd <= total_samples)
    => /\ (frames_since < RequestedEnd - RequestedStart => g_play.playing)
       /\ (frames_since >= RequestedEnd - RequestedStart => ~g_play.playing)

\* Some of start, cursor and end hold the values of the request being made and
\* the others still those of the request before it.
TornTriple ==
    /\ play_reqs >= 2
    /\ ctl_pending \cap {"start", "cursor", "end"} # {}
    /\ ctl_pending \cap {"start", "cursor", "end"} # {"start", "cursor", "end"}

\* The audio thread evaluates the guard of a frame in this step.
GuardEvaluated == cb_pc = "guard" /\ (cb_pc' = "inc" \/ cb_left' # cb_left)

\* C7: the callback never evaluates the guard of a frame on a start/cursor/end
\* triple that mixes the values of two play requests.
C7_NoTornRead == [][ (GuardEvaluated /\ g_play.playing) => ~TornTriple ]_vars

\* The last store of a play request is made in this step: the request returns.
RequestReturns == ctl_pending # {} /\ ctl_pending' = {}

\* C8: every play request leaves start = the requested start, cursor = start,
\* end = min(requested end, bufferLength) and playing = true.
C8_PlayRequestPostcondition ==
    [][ RequestReturns =>
          /\ g_play'.start = RequestedStart
          /\ g_play'.cursor = RequestedStart
          /\ g_play'.end = Min(RequestedEnd, total_samples)
          /\ g_play'.playing ]_vars

\* play_segment_seconds was called with an end sample <= its start sample.
DegenerateSegment ==
    /\ play_reqs > 0 /\ ctl_pending = {}
    /\ ctl_req.kind = "segment"
    /\ ctl_req.raw_end <= ctl_req.start

\* C9: play_segment_seconds called with an end sample <= the start sample plays
\* the window [start, min(bufferLength, start + half a second of samples)).
C9_DegenerateRangeHalfSecond ==
    DegenerateSegment
    => /\ g_play.start = ctl_req.start
       /\ g_play.end = Min(total_samples, ctl_req.start + HalfSecond(samplerate))

\* A degenerate request whose half-second window fits in the buffer.
C9_Witness ==
    /\ DegenerateSegment
    /\ g_play.end = g_play.start + HalfSecond(samplerate)
    /\ g_play.end < total_samples

\* C10: stop_playback sets playing = false and leaves start, end and cursor
\* unchanged; while no play request follows, playing stays false and a callback
\* invocation that began after stop_playback returned never passes the guard,
\* so it emits only silence.
C10_StopSilences ==
    /\ [][ (~stopped /\ stopped') =>
             /\ ~g_play'.playing
             /\ g_play'.start = g_play.start
             /\ g_play'.end = g_play.end
             /\ g_play'.cursor = g_play.cursor ]_vars
    /\ [](stopped => (~g_play.playing /\ (cb_fresh => AtFrameBoundary)))

\* A range was stopped before its end and a callback that began after the stop
\* has already produced a frame.
C10_Witness ==
    /\ stopped /\ cb_fresh /\ play_reqs > 0
    /\ cb_left < FramesPerCallback
    /\ g_play.start < g_play.cursor
    /\ g_play.cursor < g_play.end /\ g_play.cursor < total_samples


\* ------------------------------------------------------- callback claims
\* The audio thread reads waveform[..] in this step; the index it reads is the
\* cursor it stores less one.
SampleRead == cb_pc = "inc" /\ cb_pc' = "check"
IndexRead == g_play'.cursor - 1

\* The audio thread finishes, in this step, a frame in which it read a sample.
SampleFrameEnds == cb_pc \in {"check", "clear"} /\ cb_left' # cb_left

\* C11: for each frame the callback reads sample[cursor] and advances the cursor
\* exactly when playing, cursor < end and cursor < bufferLength hold, and emits
\* silence otherwise; it never reads the buffer at an index >= bufferLength, and
\* it clears playing in the frame in which the cursor reaches end.
C11_CallbackFrame ==
    [][ /\ GuardEvaluated => (cb_pc' = "inc" <=> cb_guard(g_play, total_samples))
        /\ SampleRead => (IndexRead >= 0 /\ IndexRead < total_samples)
        /\ SampleFrameEnds => (g_play'.cursor >= g_play'.end => ~g_play'.playing) ]_vars


\* A step of the audio thread (the controlling thread never moves cb_pc/cb_left).
CallbackStep == cb_pc' # cb_pc \/ cb_left' # cb_left

\* C12: the callback leaves start, end, the sample buffer and the marker store
\* unchanged; it writes only the cursor, stored when a sample is read as one more
\* than the cursor it loaded, and playing, which it only changes to false.
C12_CallbackWritesCursorAndPlaying ==
    [][ CallbackStep =>
          /\ g_play'.start = g_play.start
          /\ g_play'.end = g_play.end
          /\ UNCHANGED <<markers, total_samples, samplerate>>
          /\ (g_play'.playing => g_play.playing)
          /\ (g_play'.cursor # g_play.cursor =>
                (SampleRead /\ g_play'.cursor \in {cb_c + 1, g_play.cursor + 1})) ]_vars

\* The callback has played a requested range to its end and cleared playing.
C12_Witness ==
    /\ RequestReturned /\ cb_pc = "guard"
    /\ ~g_play.playing
    /\ g_play.start < g_play.cursor /\ g_play.cursor = g_play.end


\* The callback returns in this step.
CallbackReturns == cb_pc # "idle" /\ cb_pc' = "idle"

\* C13: every callback invocation terminates after producing exactly the frames
\* it was asked for, whatever the controlling thread does: inside the callback a
\* step is always possible (it takes no lock and waits for nothing), it returns
\* with no frame left to produce, and it does return.
C13_CallbackTerminates ==
    /\ [](cb_pc # "idle" => ENABLED CallbackBody)
    /\ [][CallbackReturns => (cb_left = 1 /\ cb_left' = 0)]_vars
    /\ ((cb_pc # "idle") ~> (cb_pc = "idle"))

\* The callback is inside a frame while a play request is half stored.
C13_Witness ==
    /\ cb_pc \in {"inc", "check", "clear"}
    /\ ctl_pending # {} /\ ctl_pending # {"start", "cursor", "end", "playing"}


\* ----------------------------------------------------------- load claims
\* load_wav_mono replaces the sample buffer in this step.
BufferReplaced == total_samples' # total_samples \/ samplerate' # samplerate

\* C14: the sample buffer is never replaced while a callback can be executing:
\* every load happens with playback stopped and with no audio device open.
C14_LoadOnlyWithDeviceClosed ==
    [][ BufferReplaced => (~audio_dev /\ ~g_play.playing /\ cb_pc = "idle") ]_vars

\* The buffer was loaded and the device was opened after it.
C14_Witness == main_pc = "opened" /\ total_samples > 0 /\ audio_dev

\* load_wav_mono has just returned true.
JustLoaded == main_pc = "loaded"

NearExisting(ms, t) == \E i \in 1..Len(ms) : Abs(ms[i] - t) < EpsUnits

\* What the claimed insert makes of the store.
InsertUnlessNear(ms, t) == IF NearExisting(ms, t) THEN ms ELSE InsertSorted(ms, t)

\* C16: a click-insert at time t leaves the store unchanged when an existing
\* marker is within 1 ms of t, and otherwise makes it the previous store plus t,
\* in ascending order.
C16_ClickInsertRejectsNear ==
    [][ /\ \A bi \in 0..(CeilDiv(total_samples, SamplesPerBlock) - 1) :
              ClickInsertVerticalAt(bi)
                  => markers' = InsertUnlessNear(markers, BlockTime(bi, samplerate))
        /\ \A t \in ClickTimeInputs :
              ClickInsertWaveAt(t) => markers' = InsertUnlessNear(markers, t)
        /\ \A row \in 0..(total_samples - 1) :
              ClickInsertRowAt(row)
                  => markers' = InsertUnlessNear(markers,
                                    row_to_seconds(row, detected_bpm, rows_per_bar)) ]_vars


\* The markers whose time is outside [r * secondsPerRow, (r + 1) * secondsPerRow).
KeepOutsideRowWindow(ms, row, bpm, rpb) ==
    SelectSeq(ms, LAMBDA t : ~(row * 240 * TimeRes <= t * bpm * rpb
                               /\ t * bpm * rpb < (row + 1) * 240 * TimeRes))

\* C17: a right click on grid row r removes exactly the markers whose time lies
\* in [r * secondsPerRow, (r + 1) * secondsPerRow) and leaves every other marker
\* and their order unchanged.
C17_RemoveOnRowWindow ==
    [][ \A row \in 0..(total_samples - 1) :
          RemoveOnRowAt(row)
              => markers' = KeepOutsideRowWindow(markers, row, detected_bpm, rows_per_bar) ]_vars


\* ms2 is ms without its i-th marker, which is one of the closest to t.
ClosestErased(ms, ms2, t) ==
    \E i \in 1..Len(ms) :
        /\ ms2 = EraseAt(ms, i)
        /\ \A j \in 1..Len(ms) : Abs(ms[i] - t) <= Abs(ms[j] - t)

\* C18: remove-closest at time t on a non-empty store removes exactly one
\* marker, one whose |time - t| is minimal, and leaves the others unchanged
\* (markers [0.5, 1.5, 2.5] with t = 1.6 lose 1.5); on an empty store it does
\* nothing.
C18_RemoveClosest ==
    [][ \A t \in ClickTimeInputs \cup {0} :
          RemoveClosestAt(t) =>
             /\ markers = <<>> => markers' = <<>>
             /\ markers # <<>> => ClosestErased(markers, markers', t)
             /\ (markers = <<1000, 3000, 5000>> /\ t = 3200) => markers' = <<1000, 5000>> ]_vars

\* The store of the scenario, on which a right click at 1.6 s is possible.
C18_Witness ==
    /\ markers = <<1000, 3000, 5000>>
    /\ ENABLED RemoveClosestAt(3200)


\* C19: in every reachable state every marker time t satisfies
\* 0 <= t < bufferDuration.
C19_MarkersInsideBuffer ==
    \A i \in 1..Len(markers) :
        0 <= markers[i] /\ markers[i] < BufferDuration(total_samples, samplerate)


\* --------------------------------------------------------- detect claims
\* The k-th point of the quantization grid of unit (240 / bpm) / ppqn seconds.
GridPoint(k, bpm, ppqn) == RoundDiv(k * 240 * TimeRes, bpm * ppqn)

\* t is an integer multiple of the quantization unit.
OnGrid(t, bpm, ppqn) ==
    \E k \in 0..((t * bpm * ppqn) \div (240 * TimeRes) + 1) : t = GridPoint(k, bpm, ppqn)

\* The raw onsets each rounded to the nearest grid point, as a set.
QuantizedSet(raw, bpm, ppqn) ==
    { GridPoint(RoundDiv(raw[i] * bpm * ppqn, 240 * TimeRes), bpm, ppqn) : i \in 1..Len(raw) }

\* ms is strictly ascending with no two markers within 1 ms.
StrictlyAscending(ms) == \A i \in 1..(Len(ms) - 1) : ms[i + 1] - ms[i] >= EpsUnits

\* What the claim says of the store left by detect_onsets_aubio(bpm, ppqn, ..).
DetectPost(raw, bpm, ppqn, ms) ==
    /\ ms = SetToSeq(QuantizedSet(raw, bpm, ppqn))
    /\ \A i \in 1..Len(ms) : OnGrid(ms[i], bpm, ppqn)
    /\ StrictlyAscending(ms)

\* C20: after the quantizing auto-detect the store is exactly the ascending,
\* de-duplicated set of the raw onsets each rounded to the nearest multiple of
\* the unit (240 / bpm) / ppqn: every marker is on the grid, the markers are
\* strictly ascending with no two within 1 ms, no earlier marker survives.
C20_DetectQuantizesAndReplaces ==
    [][ \A raw \in RawOnsetLists(total_samples, samplerate) :
          /\ AutoDetectWith(raw) => DetectPost(raw, detected_bpm, DetectPpqn, markers')
          /\ \A est \in BpmInputs \cup {0} :
                StartupDetectWith(raw, est)
                    => DetectPost(raw, detected_bpm, DetectPpqn, markers') ]_vars

\* Two of three onsets collided on the grid of 60 bpm and one marker was kept
\* for them.
C20_Witness ==
    /\ main_pc = "loop" /\ detected_bpm = 60 /\ total_samples = 8
    /\ markers = <<333, 667>>

\* ------------------------------------------------------------------- C21
\* The detect call that runs with tempo detection enabled, given a raw onset
\* list and a positive tempo estimate.
DetectWithTempo(raw, est) == est > 0 /\ StartupDetectWith(raw, est)

\* C21: when auto-detect runs with tempo detection enabled and the detector
\* supplies a positive estimate, the tempo becomes that estimate and the
\* stored markers are the raw onsets quantized on the grid of the updated
\* tempo, not of the tempo in force before the call.
C21_DetectQuantizesOnUpdatedTempo ==
    [][ \A raw \in RawOnsetLists(total_samples, samplerate) :
        \A est \in BpmInputs :
            DetectWithTempo(raw, est) =>
                /\ detected_bpm' = est
                /\ markers' = QuantizeOnsets(raw, detected_bpm', DetectPpqn) ]_vars

\* ------------------------------------------------- quantization harness
\* detect_onsets_aubio(bpm, ppqn, false) called with any grid parameters:
\* the sorted, quantized and de-duplicated onsets replace the store.
DetectCallWith(raw, bpm, ppqn) ==
    /\ main_pc = "loop"
    /\ markers' = QuantizeOnsets(raw, bpm, ppqn)
    /\ UNCHANGED <<samplerate, total_samples, detected_bpm, rows_per_bar, base_note, main_pc,
                   audio_dev>>
    /\ UNCHANGED <<markers_mtx, track, playVars>>

DetectCall ==
    \E raw \in RawOnsetLists(total_samples, samplerate) :
    \E bpm \in GridBpmInputs : \E ppqn \in GridPpqnInputs :
        DetectCallWith(raw, bpm, ppqn)

NextQuantize ==
    \/ StartupLoad
    \/ AudioReopen
    \/ StartupDetect
    \/ StartupNoFile
    \/ DetectCall
    \/ Clear

SpecQuantize == Init /\ [][NextQuantize]_vars

\* ------------------------------------------------------------------- C22
\* Raw onsets 0.101 s, 0.198 s and 0.401 s.
ScenarioOnsets == <<202, 396, 802>>

\* The quantization unit (240 / bpm) / ppqn is 0.125 s.
UnitIsEighthSecond(bpm, ppqn) == 8 * 240 = bpm * ppqn

QuantizeFixedPoint(t, bpm, ppqn) == QuantizeTime(t, bpm, ppqn) = t

\* C23: quantization is idempotent.  For every time t, bpm > 0 and ticks per
\* bar n > 0, round(t / unit) * unit with unit = (240 / bpm) / n applied to an
\* already quantized time returns the same time: each raw onset quantized by
\* a detect call, and each time the call stores, is a fixed point of the
\* quantization on the same grid.
C23_QuantizeIdempotent ==
    [][ \A raw \in RawOnsetLists(total_samples, samplerate) :
        \A bpm \in GridBpmInputs : \A ppqn \in GridPpqnInputs :
            (bpm > 0 /\ ppqn > 0 /\ DetectCallWith(raw, bpm, ppqn)) =>
                /\ \A i \in 1..Len(raw) :
                       QuantizeFixedPoint(QuantizeTime(raw[i], bpm, ppqn), bpm, ppqn)
                /\ \A i \in 1..Len(markers') :
                       QuantizeFixedPoint(markers'[i], bpm, ppqn) ]_vars

\* A detect call has stored three quantized times of the 120-bpm grid.
C23_Witness ==
    /\ main_pc = "loop"
    /\ markers = <<167, 333, 833>>
    /\ \A i \in 1..Len(markers) : QuantizeFixedPoint(markers[i], 120, DetectPpqn)

\* ------------------------------------------------------------------- C24
\* The grid parameters are invalid.
InvalidGrid(bpm, ppqn) == bpm <= 0 \/ ppqn = 0

\* C24: with an invalid grid (bpm <= 0 or ticks per bar = 0) quantization is
\* a no-op: every onset time is returned unchanged and no undefined value is
\* produced, so a detect call with bpm = 0 stores the raw onset times.
C24_InvalidGridIsNoOp ==
    [][ \A raw \in RawOnsetLists(total_samples, samplerate) :
        \A bpm \in GridBpmInputs : \A ppqn \in GridPpqnInputs :
            (InvalidGrid(bpm, ppqn) /\ DetectCallWith(raw, bpm, ppqn)) =>
                /\ markers' = raw
                /\ \A i \in 1..Len(markers') : markers'[i] # NaN ]_vars

\* ------------------------------------------------------------------- C25
\* int seconds_to_ticks(float sec, float bpm, int ppqn)
\*     { return (int)(sec * (bpm / 60.f) * ppqn); }
\* The conversion to int truncates toward zero.
seconds_to_ticks(sec, bpm, ppqn) ==
    LET n == sec * bpm * ppqn
        d == 60 * TimeRes
    IN  IF n >= 0 THEN n \div d ELSE -((-n) \div d)

\* sec * (bpm / 60) * ppqn rounded to the nearest integer, ties away from zero.
NearestTick(sec, bpm, ppqn) ==
    LET n == sec * bpm * ppqn
        d == 60 * TimeRes
    IN  IF n >= 0 THEN RoundDiv(n, d) ELSE -RoundDiv(-n, d)

\* C25: seconds-to-ticks returns t * (bpm / 60) * ticksPerBar / 4 rounded to
\* the nearest integer, ties away from zero, for non-negative t and positive
\* bpm: the tick of every stored marker, as the MIDI export computes it with
\* seconds_to_ticks(markers[i].time, detected_bpm, ppqn), is the nearest tick.
C25_SecondsToTicksRounds ==
    \A i \in 1..Len(markers) :
        (markers[i] >= 0 /\ detected_bpm > 0) =>
            seconds_to_ticks(markers[i], detected_bpm, ExportPpqn)
                = NearestTick(markers[i], detected_bpm, ExportPpqn)

\* ------------------------------------------------------------------- C26
\* floor((sample / sampleRate) / secondsPerRow) with
\* secondsPerRow = (240 / bpm) / rowsPerBar.
RowOfSampleTime(sample, bpm, rpb, sr) == (sample * bpm * rpb) \div (240 * sr)

\* C26: for every sample index s in [0, total_samples),
\* RowCalculator::sample_to_row(s) equals floor((s / sampleRate) /
\* secondsPerRow) with secondsPerRow = (240 / bpm) / rowsPerBar.
C26_SampleToRowIsFloor ==
    TrackerDrawn =>
        \A s \in 0..(total_samples - 1) :
            sample_to_row(s, detected_bpm, rows_per_bar, samplerate)
                = RowOfSampleTime(s, detected_bpm, rows_per_bar, samplerate)

\* ------------------------------------------------------------------- C27
\* A detect call whose tempo estimate is not greater than zero.
DetectWithoutTempo(raw, est) == est <= 0 /\ StartupDetectWith(raw, est)

TrackerStartupDetect ==
    /\ main_pc = "opened"
    /\ \E raw \in RawOnsetLists(total_samples, samplerate) :
       \E est \in BpmInputs \cup {0} :
          /\ detected_bpm' = IF est > 0 THEN est ELSE detected_bpm
          /\ markers' = SortByTime(raw)
    /\ main_pc' = "loop"
    /\ UNCHANGED <<samplerate, total_samples, rows_per_bar, base_note, audio_dev, markers_mtx>>
    /\ UNCHANGED <<track, playVars>>

\* "Auto Detect" button: detect_onsets_aubio(detected_bpm, 24).
TrackerAutoDetect ==
    /\ main_pc = "loop"
    /\ \E raw \in RawOnsetLists(total_samples, samplerate) :
       \E est \in BpmInputs \cup {0} :
          /\ detected_bpm' = IF est > 0 THEN est ELSE detected_bpm
          /\ markers' = SortByTime(raw)
    /\ UNCHANGED <<samplerate, total_samples, rows_per_bar, base_note, main_pc, audio_dev,
                   markers_mtx>>
    /\ UNCHANGED <<track, playVars>>

\* total_rows = std::ceil(audio_length / (seconds_per_bar / rows_per_bar))
tracker_total_rows(bpm, rpb, sr, frames) == CeilDiv(frames * bpm * rpb, 240 * sr)

\* markers[m].time >= row_start_sec && markers[m].time < row_end_sec
in_row(t, row, bpm, rpb) ==
    /\ t >= row_to_seconds(row, bpm, rpb)
    /\ t < row_to_seconds(row + 1, bpm, rpb)

\* draw_tracker_and_wave up to the lock_guard: the early return is not taken
\* and the mutex is acquired.
TrackerLock ==
    /\ main_pc = "loop" /\ TrackerDrawn
    /\ markers_mtx = "free"
    /\ markers_mtx' = "main"
    /\ main_pc' = "rows"
    /\ UNCHANGED <<markers, samplerate, total_samples, detected_bpm, rows_per_bar, base_note,
                   audio_dev>>
    /\ UNCHANGED <<track, playVars>>

\* Row loop, left click on a row without a marker: push_back({row_start_sec}),
\* std::sort.
TrackerInsertRow ==
    /\ main_pc = "rows"
    /\ Len(markers) < MaxMarkers
    /\ \E row \in ClickRows(tracker_total_rows(detected_bpm, rows_per_bar, samplerate,
                                               total_samples)) :
          /\ ~\E m \in 1..Len(markers) : in_row(markers[m], row, detected_bpm, rows_per_bar)
          /\ markers' = SortByTime(Append(markers,
                                          row_to_seconds(row, detected_bpm, rows_per_bar)))
    /\ UNCHANGED <<samplerate, total_samples, detected_bpm, rows_per_bar, base_note, main_pc,
                   audio_dev, markers_mtx>>
    /\ UNCHANGED <<track, playVars>>

\* Row loop, right click on a row with a marker: remove_if over the window.
TrackerRemoveRow ==
    /\ main_pc = "rows"
    /\ \E row \in ClickRows(tracker_total_rows(detected_bpm, rows_per_bar, samplerate,
                                               total_samples)) :
          /\ \E m \in 1..Len(markers) : in_row(markers[m], row, detected_bpm, rows_per_bar)
          /\ markers' = SelectSeq(markers,
                                  LAMBDA t : ~in_row(t, row, detected_bpm, rows_per_bar))
    /\ UNCHANGED <<samplerate, total_samples, detected_bpm, rows_per_bar, base_note, main_pc,
                   audio_dev, markers_mtx>>
    /\ UNCHANGED <<track, playVars>>

\* draw_tracker_and_wave returns: the lock_guard releases the mutex.
TrackerUnlock ==
    /\ main_pc = "rows"
    /\ markers_mtx = "main"
    /\ markers_mtx' = "free"
    /\ main_pc' = "loop"
    /\ UNCHANGED <<markers, samplerate, total_samples, detected_bpm, rows_per_bar, base_note,
                   audio_dev>>
    /\ UNCHANGED <<track, playVars>>

NextTracker ==
    \/ StartupLoad
    \/ AudioReopen
    \/ TrackerStartupDetect
    \/ StartupNoFile
    \/ TrackerLock
    \/ TrackerInsertRow
    \/ TrackerRemoveRow
    \/ TrackerUnlock
    \/ TrackerAutoDetect
    \/ Clear
    \/ SetBpm
    \/ SetRowsPerBar

SpecTracker == Init /\ [][NextTracker]_vars

\* ------------------------------------------------------------------- C28
\* C28: every read and write of the marker store (row rendering, click
\* insert and remove, Clear, the wholesale replacement by auto-detect)
\* happens while markers_mtx is held: a step that changes the store is taken
\* with the mutex held.
C28_StoreAccessUnderMutex ==
    [][ markers' # markers => markers_mtx = "main" ]_vars

\* ------------------------------------------------------------------- C29
\* The sample buffer is empty and no play request is in progress.
EmptyBufferAtRest == total_samples = 0 /\ ctl_pending = {}

\* C29: a play request issued while the sample buffer is empty leaves
\* playback idle (playing = false), and region derivation on the empty
\* buffer returns its single region 0..0 without error.
C29_EmptyBufferStaysIdle ==
    EmptyBufferAtRest =>
        /\ ~g_play.playing
        /\ compute_sample_regions(<<>>, samplerate, total_samples, base_note)
               = << [start_sample |-> 0, end_sample |-> 0, midi_key |-> base_note] >>

\* ------------------------------------------------------------------- C30
\* The list of times is in non-decreasing order.
NonDecreasing(ms) == \A i \in 1..(Len(ms) - 1) : ms[i] <= ms[i + 1]

\* C30: after every marker operation in any sequence (click insert, remove
\* on a row, remove closest, drag move, auto-detect, Clear) the marker list
\* is in non-decreasing time order, also when it holds duplicates or
\* near-duplicates.
C30_MarkersNonDecreasing == NonDecreasing(markers)

\* Three markers in order, two of them less than 1 ms apart.
C30_Witness ==
    /\ main_pc = "loop"
    /\ Len(markers) = 3
    /\ NonDecreasing(markers)
    /\ \E i \in 1..2 : markers[i + 1] - markers[i] < EpsUnits

\* ------------------------------------------------------------------- C31
\* No frame of the callback is between its guard and its out[i] = sample, and
\* no play request is between its first and its last store.
NoStepInProgress == cb_pc \in {"idle", "guard"} /\ ctl_pending = {}

\* C31: in every reachable state in which playing is true and no callback
\* frame step is in progress, start <= cursor < end <= bufferLength holds for
\* the playback state, for any sequence of play requests, stops and callback
\* invocations.
C31_PlayingRangeWellFormed ==
    (g_play.playing /\ NoStepInProgress) =>
        /\ g_play.start <= g_play.cursor
        /\ g_play.cursor < g_play.end
        /\ g_play.end <= total_samples

\* ------------------------------------------------------------------- C32
\* The audio device keeps invoking the callback, an invocation runs to its
\* return, and a play request that has begun makes all its stores and returns.
SpecPlayLive ==
    /\ SpecPlay
    /\ WF_vars(CbBegin)
    /\ WF_vars(CallbackBody)
    /\ WF_vars(CtlStore)

\* A play request has returned with playing set and the callback is invoked.
PlayingAfterRequest == audio_dev /\ ctl_pending = {} /\ play_reqs > 0 /\ g_play.playing

\* C32: after any play request, if the audio callback keeps being invoked and
\* no further play request is issued, playing eventually becomes false, for
\* every requested range, those whose start lies at or beyond the clamped end
\* or the buffer length included.
C32_PlayingEventuallyFalse ==
    PlayingAfterRequest ~> (~g_play.playing \/ ctl_pending # {})

\* ------------------------------------------------------------------- C33
\* A second or later play request has returned, for a range inside the
\* buffer of which the callback has not yet produced all the frames.
LaterRequestUnconsumed ==
    /\ RequestReturned /\ AtFrameBoundary
    /\ play_reqs >= 2
    /\ 0 <= RequestedStart /\ RequestedStart < RequestedEnd
    /\ RequestedEnd <= total_samples
    /\ frames_since < RequestedEnd - RequestedStart

\* C33: a play request issued while a previous region is still playing is
\* never lost.  Under every interleaving of the controlling thread's stores
\* with the callback's frame steps, once the request has returned the
\* callback plays the new range from its start: playing is still set and the
\* cursor is inside the new range, so the callback's end-of-region clear for
\* the old range has not cancelled the request and its increment has not
\* overwritten the new cursor.
C33_LaterRequestNotLost ==
    LaterRequestUnconsumed =>
        /\ g_play.playing
        /\ RequestedStart <= g_play.cursor
        /\ g_play.cursor < RequestedEnd

\* ------------------------------------------------------------------- C34
\* The row on which the tracker draws a marker of time t: sample_to_row of
\* its rounded start sample.
RowOfMarker(t) ==
    sample_to_row(TimeToSample(t, samplerate), detected_bpm, rows_per_bar, samplerate)

\* C34: in the row-based tracker that uses RowCalculator, a left click on an
\* empty row r adds a marker whose derived region starts on row r, so that a
\* right click on row r that follows immediately removes exactly that marker
\* and restores the previous store, for every row, bpm and rows-per-bar.
C34_InsertThenRemoveRestores ==
    [][ \A row \in 0..(total_samples - 1) :
            ClickInsertRowAt(row) =>
                /\ RowOfMarker(row_to_seconds(row, detected_bpm, rows_per_bar)) = row
                /\ KeepOffRow(markers', row, detected_bpm, rows_per_bar, samplerate)
                       = markers ]_vars

\* ------------------------------------------------------------------- C35
\* export_sfz: one <region> line per marker, offset = (int)(time * samplerate),
\* end = the next marker's offset or total_frames, key = base_note + i.
export_sfz(ms, sr, frames, base) ==
    [ i \in 1..Len(ms) |->
        [ offset |-> SecondsToSample(ms[i], sr),
          end    |-> IF i < Len(ms) THEN SecondsToSample(ms[i + 1], sr) ELSE frames,
          key    |-> base + (i - 1) ] ]

\* The request the per-marker Play button of marker i makes.
PlayOfMarker(i) ==
    play_segment_seconds(markers[i],
                         IF i < Len(markers) THEN markers[i + 1]
                         ELSE BufferDuration(total_samples, samplerate),
                         samplerate, total_samples)

\* C35: for every marker index i, the sample range [start, end) that the
\* per-marker Play button puts into the playback state equals the offset and
\* end that export_sfz writes for region i from the same store and buffer.
C35_PlayRangeIsSfzRegion ==
    main_pc = "loop" =>
        \A i \in 1..Len(markers) :
            LET sfz == export_sfz(markers, samplerate, total_samples, base_note)
            IN  /\ PlayOfMarker(i).start = sfz[i].offset
                /\ PlayOfMarker(i).end = sfz[i].end

\* ------------------------------------------------------------------- C36
\* The indices of the markers of ms that are closest to t.
ClosestIndices(ms, t) ==
    { i \in 1..Len(ms) : \A j \in 1..Len(ms) : Abs(ms[i] - t) <= Abs(ms[j] - t) }

\* The smallest index of a non-empty set of indices.
FirstIndex(I) == CHOOSE i \in I : \A j \in I : i <= j

\* C36: when two or more markers are equally close to the clicked time t,
\* remove-closest removes the earliest of them, the first minimal element in
\* store order, and keeps the others.
C36_TieRemovesEarliest ==
    [][ \A t \in ClickTimeInputs \cup {0} :
          (RemoveClosestAt(t) /\ Cardinality(ClosestIndices(markers, t)) >= 2) =>
              markers' = EraseAt(markers, FirstIndex(ClosestIndices(markers, t))) ]_vars

\* Markers at 0.5 s and 2.5 s, equally far from a right click at 1.5 s.
C36_Witness ==
    /\ markers = <<1000, 5000>>
    /\ Cardinality(ClosestIndices(markers, 3000)) = 2
    /\ ENABLED RemoveClosestAt(3000)

\* ------------------------------------------------------------ export_midi
\* The events export_midi collects: a note-on at the tick of every marker and,
\* for every marker but the last, a note-off at the tick of the next marker.
\* Event is { int tick; bool on; int note; }.
midi_events(ms, bpm, base) ==
    { [tick |-> seconds_to_ticks(ms[i], bpm, ExportPpqn), on |-> TRUE, note |-> base + (i - 1)]
        : i \in 1..Len(ms) }
    \cup
    { [tick |-> seconds_to_ticks(ms[i + 1], bpm, ExportPpqn), on |-> FALSE,
       note |-> base + (i - 1)]
        : i \in 1..(Len(ms) - 1) }

\* Variant of the comparator: at equal ticks the note-on events come first.
ev_less_on_first(a, b) == a.tick < b.tick \/ (a.tick = b.tick /\ a.on)

\* The comparator of the sort: a.tick < b.tick || (a.tick == b.tick && !a.on).
ev_less(a, b) == a.tick < b.tick \/ (a.tick = b.tick /\ ~a.on)

\* std::sort(ev.begin(), ev.end(), ev_less).  Two note-offs of one tick compare
\* less in both directions and two note-ons in neither; the sort is not stable,
\* so such events come out in any order.  An event that compares less than
\* another one, and not the other way round, comes out before it.
RECURSIVE sort_outcomes(_)
sort_outcomes(S) ==
    IF S = {} THEN { <<>> }
    ELSE UNION { { <<e>> \o r : r \in sort_outcomes(S \ {e}) } :
                 e \in { e \in S : \A x \in S \ {e} : ~(ev_less(x, e) /\ ~ev_less(e, x)) } }

\* The event sequences export_midi can write for a store.
export_midi(ms, bpm, base) == sort_outcomes(midi_events(ms, bpm, base))

\* last_tick before the k-th event is written.
last_tick(ev, k) == IF k = 1 THEN 0 ELSE ev[k - 1].tick

\* int delta = e.tick - last_tick; if (delta < 0) delta = 0; write_varlen(delta)
midi_delta(ev, k) == Max(0, ev[k].tick - last_tick(ev, k))

C38_NoteOnHasLaterNoteOff ==
    main_pc = "loop" =>
        \A ev \in export_midi(markers, detected_bpm, base_note) :
            \A k \in 1..Len(ev) :
                ev[k].on => \E l \in (k + 1)..Len(ev) :
                                ~ev[l].on /\ ev[l].note = ev[k].note

\* ------------------------------------------------- export_midi: track bytes
\* Variant of write_varlen: the 7-bit groups are written without the
\* continuation bit.
RECURSIVE varlen_loop_no_flag(_, _)
varlen_loop_no_flag(buf, v) ==
    LET w == v \div 128
    IN  IF w = 0 THEN buf ELSE varlen_loop_no_flag(<<w % 128>> \o buf, w)

write_varlen_no_flag(v) == varlen_loop_no_flag(<<v % 128>>, v)

\* while ((v >>= 7)) { shift buf[0..idx) one place up;
\*                     buf[0] = (v & 0x7F) | 0x80; ++idx; }
RECURSIVE varlen_loop(_, _)
varlen_loop(buf, v) ==
    LET w == v \div 128
    IN  IF w = 0 THEN buf ELSE varlen_loop(<<(w % 128) + 128>> \o buf, w)

\* write_varlen(v) for v >= 0: buf[0] = v & 0x7F, then the loop, then the
\* bytes of buf are appended to the track.  buf has four bytes, which holds
\* every v below 2^28; the deltas passed are not negative.
write_varlen(v) == varlen_loop(<<v % 128>>, v)

\* The bytes of the k-th and later events: the delta, the status byte
\* (0x90 note-on, 0x80 note-off), e.note & 0x7F and the velocity 100.
RECURSIVE midi_event_bytes(_, _)
midi_event_bytes(ev, k) ==
    IF k > Len(ev) THEN <<>>
    ELSE write_varlen(midi_delta(ev, k))
         \o <<(IF ev[k].on THEN 144 ELSE 128), ev[k].note % 128, 100>>
         \o midi_event_bytes(ev, k + 1)

\* The track of export_midi: the tempo meta event with
\* us_per_beat = (int)(60000000.0 / detected_bpm), the events, end of track.
midi_track(ev, bpm) ==
    LET us_per_beat == 60000000 \div bpm
    IN  <<0, 255, 81, 3,
          (us_per_beat \div 65536) % 256, (us_per_beat \div 256) % 256, us_per_beat % 256>>
        \o midi_event_bytes(ev, 1)
        \o <<0, 255, 47, 0>>

\* The "Export slices.mid" button, and "Confirm: Generate": export_midi runs.
ExportMidi ==
    /\ main_pc = "loop"
    /\ \E ev \in export_midi(markers, detected_bpm, base_note) :
          track' = midi_track(ev, detected_bpm)
    /\ UNCHANGED <<markers, samplerate, total_samples, detected_bpm, rows_per_bar, base_note,
                   main_pc, audio_dev, markers_mtx>>
    /\ UNCHANGED playVars

\* Delta values for write_varlen: the 7-bit groups of a value below 2^28,
\* each 0, 1 or 127; 0, 127, 128, 16383, 16384, 2097151, 2097152 and
\* 268435455 are among them.
VarlenInputs ==
    { ((a * 128 + b) * 128 + c) * 128 + d : a, b, c, d \in {0, 1, 127} }

\* write_varlen called with delta v on an empty track.
WriteVarlenCall(v) ==
    /\ main_pc = "loop"
    /\ track' = write_varlen(v)
    /\ UNCHANGED <<markers, samplerate, total_samples, detected_bpm, rows_per_bar, base_note,
                   main_pc, audio_dev, markers_mtx>>
    /\ UNCHANGED playVars

WriteVarlen == \E v \in VarlenInputs : WriteVarlenCall(v)

NextMidi ==
    \/ StartupLoad
    \/ AudioReopen
    \/ StartupDetect
    \/ StartupNoFile
    \/ ExportMidi
    \/ WriteVarlen

SpecMidi == Init /\ [][NextMidi]_vars

\* ------------------------------------------------------------------- C39
\* bs is the standard MIDI variable-length quantity of v: one to four bytes,
\* the top bit set in every byte but the last, and the low seven bits of the
\* bytes, most significant first, make v.
RECURSIVE VarlenValue(_)
VarlenValue(bs) ==
    IF bs = <<>> THEN 0
    ELSE VarlenValue(SubSeq(bs, 1, Len(bs) - 1)) * 128 + (bs[Len(bs)] % 128)

IsVarlenOf(bs, v) ==
    /\ Len(bs) \in 1..4
    /\ \A i \in 1..Len(bs) : bs[i] \in 0..255
    /\ \A i \in 1..(Len(bs) - 1) : bs[i] >= 128
    /\ bs[Len(bs)] < 128
    /\ VarlenValue(bs) = v

\* C39: for every delta v with 0 <= v < 2^28, write_varlen appends between
\* one and four bytes that are the standard MIDI variable-length encoding of
\* v: every byte but the last has its top bit set, the last has it clear, and
\* the low 7 bits of the bytes, most significant first, give back v.
C39_WriteVarlenIsStandard ==
    [][ \A v \in VarlenInputs : WriteVarlenCall(v) => IsVarlenOf(track', v) ]_vars

\* The largest delta, 2^28 - 1, has been written: four bytes FF FF FF 7F.
C39_Witness == track = <<255, 255, 255, 127>>

====
